---- MODULE Spec2Model ----
(***************************************************************************)
(* Model of server.js: the in-memory job table, the single-slot work       *)
(* queue, the POST /render intake handler, the status and download read    *)
(* handlers, and processJob with its suspension points (mkdtemp, fetch,    *)
(* stream transfer, render engine).                                        *)
(***************************************************************************)
EXTENDS Integers, Sequences, FiniteSets, TLC

(* Number of submissions accepted in one run of the model. *)
MaxJobs == 3

(* PQueue({ concurrency: 1 }) *)
Concurrency == 1

JobIds == 1..MaxJobs

Null == "null"

(***************************************************************************)
(* JavaScript values that can stand in clip.start / clip.end.  typeof of   *)
(* NaN and of +/-Infinity is "number"; JSON.parse("1e999") is Infinity.    *)
(***************************************************************************)
Num(n) == [type |-> "number", kind |-> "finite", v |-> n]
NaN == [type |-> "number", kind |-> "nan", v |-> 0]
PosInf == [type |-> "number", kind |-> "posinf", v |-> 0]
NegInf == [type |-> "number", kind |-> "neginf", v |-> 0]
Str == [type |-> "string", kind |-> "none", v |-> 0]
Undefined == [type |-> "undefined", kind |-> "none", v |-> 0]

Clip(s, e) == [start |-> s, end |-> e]

(* a <= b on two JavaScript numbers neither of which is NaN *)
Leq(a, b) ==
    CASE a.kind = "neginf" -> TRUE
      [] b.kind = "posinf" -> TRUE
      [] a.kind = "posinf" -> FALSE
      [] b.kind = "neginf" -> FALSE
      [] OTHER -> a.v <= b.v

(* requireNumber(v, name): TRUE when it returns, FALSE when it throws *)
requireNumberOk(x) == ~(x.type # "number" \/ x.kind = "nan")

(* The body of the forEach callback for one clip: the error it throws, or Null *)
ClipError(c) ==
    IF ~requireNumberOk(c.start) THEN "Error: clip.start must be a number"
    ELSE IF ~requireNumberOk(c.end) THEN "Error: clip.end must be a number"
    ELSE IF Leq(c.end, c.start) THEN "Error: clip.end must be > clip.start"
    ELSE Null

(* cfg.clips.forEach: the first clip that throws ends the loop *)
ClipsError_FirstClipOnly(clips) ==
    IF clips = <<>> THEN Null ELSE ClipError(Head(clips))
RECURSIVE ClipsError(_)
ClipsError(clips) ==
    IF clips = <<>> THEN Null
    ELSE IF ClipError(Head(clips)) # Null THEN ClipError(Head(clips))
    ELSE ClipsError(Tail(clips))

(***************************************************************************)
(* Request bodies.  sourceUrl is "" when absent (falsy); isArray is       *)
(* Array.isArray(clips); clips holds the elements when it is a list.       *)
(***************************************************************************)
Url == "https://x/video.mp4"

ClipLists ==
    { <<Clip(Num(0), Num(1))>>,
      <<Clip(Num(0), Num(1)), Clip(Num(1), Num(2))>>,
      <<Clip(Num(0), Num(1)), Clip(Num(1), Num(1))>>,
      <<Clip(Num(1), Num(0))>>,
      <<Clip(Str, Num(1))>>,
      <<Clip(Num(0), Num(1)), Clip(Num(0), NaN)>>,
      <<Clip(Num(0), PosInf)>>,
      <<Clip(NegInf, Num(1))>>,
      <<Clip(PosInf, PosInf)>>,
      <<Clip(Num(0), Undefined)>> }

Payloads ==
    { [sourceUrl |-> Url, isArray |-> TRUE, clips |-> c] : c \in ClipLists }
    \cup { [sourceUrl |-> "", isArray |-> TRUE, clips |-> <<Clip(Num(0), Num(1))>>],
           [sourceUrl |-> Url, isArray |-> TRUE, clips |-> <<>>],
           [sourceUrl |-> Url, isArray |-> FALSE, clips |-> <<>>],
           [sourceUrl |-> "", isArray |-> FALSE, clips |-> <<>>] }

(* line 31: !payload?.sourceUrl || !Array.isArray(payload?.clips) || clips.length === 0 *)
InvalidPayload_NoLengthCheck(p) ==
    \/ p.sourceUrl = ""
    \/ ~p.isArray
InvalidPayload(p) ==
    \/ p.sourceUrl = ""
    \/ ~p.isArray
    \/ Len(p.clips) = 0

(***************************************************************************)
(* The filter graph of lines 78-102.  A part is the tokenised form of one  *)
(* string pushed on filterParts: its input labels, its filter, the values  *)
(* interpolated into it, and its output label.                             *)
(***************************************************************************)
DefaultWidth == 1920
DefaultHeight == 1080
DefaultFps == 30

Part(in, filter, out) ==
    [in |-> in, filter |-> filter, out |-> out,
     start |-> Num(0), end |-> Num(0), n |-> 0, v |-> 0, a |-> 0,
     width |-> 0, height |-> 0, fps |-> 0]

(* `[v${i}]`, `[a${i}]`: forEach and map count from 0 *)
Label(prefix, i) == prefix \o ToString(i - 1)

(* lines 84-87: the two strings pushed for the clip at position i *)
TrimParts(c, i) ==
    << [Part(<<"0:v">>, "trim,setpts", Label("v", i))
            EXCEPT !.start = c.start, !.end = c.end],
       [Part(<<"0:a">>, "atrim,asetpts", Label("a", i))
            EXCEPT !.start = c.start, !.end = c.end] >>

(* lines 79-88: the parts pushed by the loop over the first k clips *)
RECURSIVE TrimLoop(_, _)
TrimLoop(clips, k) ==
    IF k = 0 THEN <<>>
    ELSE TrimLoop(clips, k - 1) \o TrimParts(clips[k], k)

(* lines 90-91: cfg.clips.map((_, i) => `[v${i}]`) *)
Inputs(prefix, clips) == [i \in 1..Len(clips) |-> Label(prefix, i)]

(* lines 94-95 *)
ConcatParts_ShortCount(clips) ==
    << [Part(Inputs("v", clips), "concat", "vout")
            EXCEPT !.n = Len(clips) - 1, !.v = 1, !.a = 0],
       [Part(Inputs("a", clips), "concat", "aout")
            EXCEPT !.n = Len(clips) - 1, !.v = 0, !.a = 1] >>
ConcatParts(clips) ==
    << [Part(Inputs("v", clips), "concat", "vout")
            EXCEPT !.n = Len(clips), !.v = 1, !.a = 0],
       [Part(Inputs("a", clips), "concat", "aout")
            EXCEPT !.n = Len(clips), !.v = 0, !.a = 1] >>

(* cfg.width || 1920: an absent or zero option takes the default *)
Option(c, name, default) ==
    IF name \in DOMAIN c /\ c[name] # 0 THEN c[name] ELSE default

(* lines 98-102 *)
ScalePart(c) ==
    [Part(<<"vout">>, "scale,pad,fps", "vfinal")
        EXCEPT !.width = Option(c, "width", DefaultWidth),
               !.height = Option(c, "height", DefaultHeight),
               !.fps = Option(c, "fps", DefaultFps)]

(* filterParts when line 110 joins it *)
FilterParts(c) ==
    TrimLoop(c.clips, Len(c.clips)) \o ConcatParts(c.clips) \o <<ScalePart(c)>>

VARIABLES
    jobs,     \* the job table: job id -> record
    cfg,      \* job id -> the payload captured by the closure given to queue.add
    queue,    \* PQueue's waiting tasks, oldest first
    running,  \* the job ids whose processJob is in flight (PQueue's pending tasks)
    pc,       \* job id -> position of its processJob
    alive,    \* FALSE once an uncaught exception has terminated the process
    http,     \* the response to the last POST /render
    engine    \* job id -> the -filter_complex parts of its render engine invocation

vars == <<jobs, cfg, queue, running, pc, alive, http, engine>>

NoHttp == [code |-> 0, jobId |-> 0]

(* uuid(): an identifier not in use *)
uuid == Cardinality(DOMAIN jobs) + 1

(* The closure of a task that has settled is dropped *)
Release(c, id) == [x \in (DOMAIN c) \ {id} |-> c[x]]

(* jobs.set(id, rec) *)
jobsSet_EveryKey(js, id, rec) == [x \in (DOMAIN js) \cup {id} |-> rec]
jobsSet(js, id, rec) == [x \in (DOMAIN js) \cup {id} |-> IF x = id THEN rec ELSE js[x]]

(* setJob(id, patch): jobs.set(id, { ...prev, ...patch }) *)
setJob_Replaces(js, id, patch) == jobsSet(js, id, patch)
setJob(js, id, patch) ==
    LET prev == IF id \in DOMAIN js THEN js[id] ELSE <<>>
    IN jobsSet(js, id, patch @@ prev)

OutPath(tmpDir) == tmpDir \o "/out.mp4"
TmpDir(j) == "/tmp/render-" \o ToString(j)

(* The records and patches written to the job table *)
QueuedRecord_NoError == [status |-> "queued", progress |-> 0, file |-> Null]
QueuedRecord == [status |-> "queued", progress |-> 0, file |-> Null, error |-> Null]
DownloadingPatch == [status |-> "downloading", progress |-> 5]
PreparingPatch_SkipsAhead == [status |-> "rendering", progress |-> 12]
PreparingPatch == [status |-> "preparing", progress |-> 12]
RenderingPatch_LowProgress == [status |-> "rendering", progress |-> 10]
RenderingPatch == [status |-> "rendering", progress |-> 20]
CompletedPatch_WithStderr(j) ==
    [status |-> "completed", progress |-> 100, file |-> OutPath(TmpDir(j)),
     tmpDir |-> TmpDir(j), error |-> "stderr"]
CompletedPatch(j) ==
    [status |-> "completed", progress |-> 100, file |-> OutPath(TmpDir(j)),
     tmpDir |-> TmpDir(j)]
FailedPatch_KeepsProgress(e) == [status |-> "failed", error |-> e]
FailedPatch(e) == [status |-> "failed", progress |-> 0, error |-> e]
RejectedRecord(e) == [status |-> "failed", progress |-> 0, file |-> Null, error |-> e]

(* GET /render/:jobId, lines 47-56 *)
StatusResponse_AnyJob(j) ==
    IF j \notin DOMAIN jobs
    THEN [code |-> 404, error |-> "Not found"]
    ELSE [code |-> 200,
          status |-> jobs[j].status,
          progress |-> jobs[j].progress,
          downloadUrl |-> "/download/" \o ToString(j),
          error |-> jobs[j].error]
StatusResponse(j) ==
    IF j \notin DOMAIN jobs
    THEN [code |-> 404, error |-> "Not found"]
    ELSE [code |-> 200,
          status |-> jobs[j].status,
          progress |-> jobs[j].progress,
          downloadUrl |-> IF jobs[j].file # Null
                          THEN "/download/" \o ToString(j) ELSE Null,
          error |-> jobs[j].error]

(* GET /download/:jobId, lines 59-63 *)
DownloadResponse(j) ==
    IF j \notin DOMAIN jobs \/ jobs[j].file = Null
    THEN [code |-> 404, body |-> "Not ready"]
    ELSE [code |-> 200, body |-> jobs[j].file]

Init ==
    /\ jobs = <<>>
    /\ cfg = <<>>
    /\ queue = <<>>
    /\ running = {}
    /\ pc = <<>>
    /\ alive = TRUE
    /\ http = NoHttp
    /\ engine = <<>>

(* POST /render, lines 26-44 *)
PostRender_AwaitsQueue(p) ==
    /\ alive
    /\ IF InvalidPayload(p)
       THEN /\ http' = [code |-> 400, jobId |-> 0]
            /\ UNCHANGED <<jobs, cfg, queue, running, pc, alive, engine>>
       ELSE /\ running = {}
            /\ queue = <<>>
            /\ uuid \in JobIds
            /\ jobs' = jobsSet(jobs, uuid, QueuedRecord)
            /\ cfg' = jobsSet(cfg, uuid, p)
            /\ pc' = jobsSet(pc, uuid, "queued")
            /\ queue' = Append(queue, uuid)
            /\ http' = [code |-> 200, jobId |-> uuid]
            /\ UNCHANGED <<running, alive, engine>>
PostRender(p) ==
    /\ alive
    /\ IF InvalidPayload(p)
       THEN /\ http' = [code |-> 400, jobId |-> 0]
            /\ UNCHANGED <<jobs, cfg, queue, running, pc, alive, engine>>
       ELSE /\ uuid \in JobIds
            /\ jobs' = jobsSet(jobs, uuid, QueuedRecord)
            /\ cfg' = jobsSet(cfg, uuid, p)
            /\ pc' = jobsSet(pc, uuid, "queued")
            /\ queue' = Append(queue, uuid)
            /\ http' = [code |-> 200, jobId |-> uuid]
            /\ UNCHANGED <<running, alive, engine>>

(* The catch block of processJob, line 127 *)
Catch(j, e) ==
    /\ jobs' = setJob(jobs, j, FailedPatch(e))
    /\ pc' = [pc EXCEPT ![j] = "returned"]
    /\ UNCHANGED <<cfg, queue, running, alive, http, engine>>

(* PQueue takes the next task off its waiting list *)
Dequeue_Newest(q) == [task |-> q[Len(q)], rest |-> SubSeq(q, 1, Len(q) - 1)]
Dequeue(q) == [task |-> Head(q), rest |-> Tail(q)]

(* PQueue has a free slot: fewer tasks in flight than its concurrency *)
SlotFree_Unlimited == TRUE
SlotFree == Cardinality(running) < Concurrency

(* PQueue starts the oldest waiting task when a slot is free; processJob
   runs to its first await: line 69 and the call of mkdtemp, line 71 *)
Start(j) ==
    /\ alive
    /\ queue # <<>>
    /\ SlotFree
    /\ j = Dequeue(queue).task
    /\ queue' = Dequeue(queue).rest
    /\ running' = running \cup {j}
    /\ jobs' = setJob(jobs, j, DownloadingPatch)
    /\ pc' = [pc EXCEPT ![j] = "mkdtemp"]
    /\ UNCHANGED <<cfg, alive, http, engine>>

(* await fs.mkdtemp settles, line 71; download() runs to await fetch, line 137 *)
Mkdtemp(j, ok) ==
    /\ alive
    /\ j \in running
    /\ pc[j] = "mkdtemp"
    /\ IF ok
       THEN /\ pc' = [pc EXCEPT ![j] = "fetch"]
            /\ UNCHANGED <<jobs, cfg, queue, running, alive, http, engine>>
       ELSE Catch(j, "Error: mkdtemp failed")

FetchOutcomes == {"ok", "rejected", "notok", "mkdir"}

(* await fetch settles, line 137; lines 138-139 *)
Fetch(j, outcome) ==
    /\ alive
    /\ j \in running
    /\ pc[j] = "fetch"
    /\ CASE outcome = "ok" ->
              /\ pc' = [pc EXCEPT ![j] = "transfer"]
              /\ UNCHANGED <<jobs, cfg, queue, running, alive, http, engine>>
         [] outcome = "rejected" -> Catch(j, "TypeError: fetch failed")
         [] outcome = "notok" -> Catch(j, "Error: Download failed: 404 Not Found")
         [] outcome = "mkdir" -> Catch(j, "Error: mkdir failed")

TransferOutcomes == {"finish", "bodyerror", "nopipe", "wserror"}

(* The promise of lines 141-145.  "finish": the write stream finishes.
   "bodyerror": the response body emits error, the promise rejects.
   "nopipe": r.body has no pipe method (a web ReadableStream), the executor
   throws and the promise rejects.  "wserror": the write stream emits error;
   it has no error listener, so the event is an uncaught exception. *)
Transfer(j, outcome) ==
    /\ alive
    /\ j \in running
    /\ pc[j] = "transfer"
    /\ CASE outcome = "finish" ->
              /\ pc' = [pc EXCEPT ![j] = "prepare"]
              /\ UNCHANGED <<jobs, cfg, queue, running, alive, http, engine>>
         [] outcome = "bodyerror" -> Catch(j, "Error: aborted")
         [] outcome = "nopipe" -> Catch(j, "TypeError: r.body.pipe is not a function")
         [] outcome = "wserror" ->
              /\ alive' = FALSE
              /\ pc' = [pc EXCEPT ![j] = "uncaught"]
              /\ UNCHANGED <<jobs, cfg, queue, running, http, engine>>

(* line 75 *)
Prepare(j) ==
    /\ alive
    /\ j \in running
    /\ pc[j] = "prepare"
    /\ jobs' = setJob(jobs, j, PreparingPatch)
    /\ pc' = [pc EXCEPT ![j] = "compile"]
    /\ UNCHANGED <<cfg, queue, running, alive, http, engine>>

(* lines 78-123: the clip loop, the filter graph, setJob rendering, and the
   start of the render engine *)
Compile(j) ==
    /\ alive
    /\ j \in running
    /\ pc[j] = "compile"
    /\ IF ClipsError(cfg[j].clips) # Null
       THEN Catch(j, ClipsError(cfg[j].clips))
       ELSE /\ jobs' = setJob(jobs, j, RenderingPatch)
            /\ pc' = [pc EXCEPT ![j] = "exec"]
            /\ engine' = jobsSet(engine, j, FilterParts(cfg[j]))
            /\ UNCHANGED <<cfg, queue, running, alive, http>>

(* await execFileP settles, line 123; line 125 *)
Exec(j, ok) ==
    /\ alive
    /\ j \in running
    /\ pc[j] = "exec"
    /\ IF ok
       THEN /\ jobs' = setJob(jobs, j, CompletedPatch(j))
            /\ pc' = [pc EXCEPT ![j] = "returned"]
            /\ UNCHANGED <<cfg, queue, running, alive, http, engine>>
       ELSE Catch(j, "Error: Command failed: ffmpeg")

(* The promise of processJob(j) is rejected: an exception left its catch
   block.  The try block spans the whole body and the catch block only calls
   setJob, so no position of processJob leads here. *)
ProcessJobRejected_OnSettle(j) == TRUE
ProcessJobRejected(j) == pc[j] = "threw"

(* processJob's promise settles: PQueue frees the slot, and the handler of
   lines 36-38 runs when the promise is rejected. *)
Settle(j) ==
    /\ alive
    /\ j \in running
    /\ pc[j] \in {"returned", "threw"}
    /\ running' = running \ {j}
    /\ pc' = [pc EXCEPT ![j] = "done"]
    /\ jobs' = IF ProcessJobRejected(j)
               THEN jobsSet(jobs, j, RejectedRecord("Error"))
               ELSE jobs
    /\ cfg' = Release(cfg, j)
    /\ engine' = Release(engine, j)
    /\ UNCHANGED <<queue, alive, http>>

Next ==
    \/ \E p \in Payloads : PostRender(p)
    \/ \E j \in JobIds : Start(j)
    \/ \E j \in JobIds, ok \in BOOLEAN : Mkdtemp(j, ok)
    \/ \E j \in JobIds, o \in FetchOutcomes : Fetch(j, o)
    \/ \E j \in JobIds, o \in TransferOutcomes : Transfer(j, o)
    \/ \E j \in JobIds : Prepare(j)
    \/ \E j \in JobIds : Compile(j)
    \/ \E j \in JobIds, ok \in BOOLEAN : Exec(j, ok)
    \/ \E j \in JobIds : Settle(j)

Spec == Init /\ [][Next]_vars

(* The steps of the worker and of the operations it awaits.  Each awaited
   operation settles, and PQueue runs a waiting task once its slot is free. *)
WorkerNext ==
    \/ \E j \in JobIds : Start(j)
    \/ \E j \in JobIds, ok \in BOOLEAN : Mkdtemp(j, ok)
    \/ \E j \in JobIds, o \in FetchOutcomes : Fetch(j, o)
    \/ \E j \in JobIds, o \in TransferOutcomes : Transfer(j, o)
    \/ \E j \in JobIds : Prepare(j)
    \/ \E j \in JobIds : Compile(j)
    \/ \E j \in JobIds, ok \in BOOLEAN : Exec(j, ok)
    \/ \E j \in JobIds : Settle(j)

FairSpec == Spec /\ WF_vars(WorkerNext)

(***************************************************************************)
(* The filter graph construction on its own: one job has been accepted     *)
(* with any request body of the bounded set below, its source has been     *)
(* downloaded and line 75 has run; the step is lines 78-123.               *)
(***************************************************************************)
MaxClips == 2
MaxTime == 2

ClipValues == {Num(t) : t \in 0..MaxTime} \cup {PosInf, NaN}
AnyClips == {Clip(s, e) : s \in ClipValues, e \in ClipValues}
AnyClipLists == UNION {[1..n -> AnyClips] : n \in 1..MaxClips}

CompileInputs ==
    { [sourceUrl |-> Url, isArray |-> TRUE, clips |-> c,
       width |-> g[1], height |-> g[2], fps |-> g[3]] :
         c \in AnyClipLists, g \in {<<0, 0, 0>>, <<1280, 720, 60>>} }

InitCompile ==
    /\ \E p \in CompileInputs : cfg = jobsSet(<<>>, 1, p)
    /\ jobs = setJob(setJob(jobsSet(<<>>, 1, QueuedRecord), 1, DownloadingPatch),
                     1, PreparingPatch)
    /\ queue = <<>>
    /\ running = {1}
    /\ pc = jobsSet(<<>>, 1, "compile")
    /\ alive = TRUE
    /\ http = [code |-> 200, jobId |-> 1]
    /\ engine = <<>>

NextCompile == \E j \in JobIds : Compile(j)

SpecCompile == InitCompile /\ [][NextCompile]_vars

TypeOK == DOMAIN jobs = DOMAIN pc /\ DOMAIN cfg \subseteq DOMAIN jobs

----------------------------------------------------------------------------
(* Vocabulary of the properties *)

Terminal == {"completed", "failed"}
Active == {"downloading", "preparing", "rendering"}

Successor(st) ==
    CASE st = "queued" -> "downloading"
      [] st = "downloading" -> "preparing"
      [] st = "preparing" -> "rendering"
      [] st = "rendering" -> "completed"
      [] OTHER -> "none"

StatusOf(j) == jobs[j].status

(* C1: every change of a job's status goes to the immediate successor in
   queued -> downloading -> preparing -> rendering -> completed or to failed,
   a terminal status is never left, and a new record starts in queued; so no
   state is skipped, revisited or regressed to. *)
C1_StatusForward ==
    [][\A j \in DOMAIN jobs' :
          IF j \in DOMAIN jobs
          THEN jobs'[j].status # jobs[j].status
                 => /\ jobs[j].status \notin Terminal
                    /\ jobs'[j].status \in {Successor(jobs[j].status), "failed"}
          ELSE jobs'[j].status = "queued"]_vars

(* One job has gone through every state to completed and another has failed
   on the way *)
C1_Witness ==
    \E a, b \in DOMAIN jobs :
        /\ StatusOf(a) = "completed"
        /\ StatusOf(b) = "failed"
        /\ jobs[b].error = "Error: Command failed: ffmpeg"

(* C2: at most one job is in an active phase (downloading, preparing or
   rendering) in every reachable state. *)
C2_OneActiveJob ==
    Cardinality({j \in DOMAIN jobs : StatusOf(j) \in Active}) <= 1

(* One job is rendering while two later submissions wait *)
C2_Witness ==
    \E a \in DOMAIN jobs :
        /\ StatusOf(a) = "rendering"
        /\ Cardinality({j \in DOMAIN jobs : StatusOf(j) = "queued"}) >= 2

(* C3: a job accepted later does not leave queued until every job accepted
   before it is completed or failed (identifiers are handed out in order of
   acceptance). *)
C3_EnqueueOrder ==
    \A a, b \in DOMAIN jobs :
        (a < b /\ StatusOf(b) # "queued") => StatusOf(a) \in Terminal

(* The second of three submissions is running, the first is finished, the
   third still waits *)
C3_Witness ==
    /\ DOMAIN jobs = {1, 2, 3}
    /\ StatusOf(1) \in Terminal
    /\ StatusOf(2) \in Active
    /\ StatusOf(3) = "queued"

(* C4: every failure raised inside a job's unit of work, a stream error of
   the transfer included, leaves the process running and the job failed. *)
C4_FailuresCaught ==
    /\ alive
    /\ \A j \in DOMAIN jobs : pc[j] = "uncaught" => StatusOf(j) = "failed"

(* C5: every accepted job eventually reaches completed or failed. *)
C5_EveryJobEnds ==
    \A j \in JobIds :
        [](j \in DOMAIN jobs => <>(j \in DOMAIN jobs /\ StatusOf(j) \in Terminal))

BlankRecord == [status |-> "none", progress |-> 0, file |-> Null, error |-> Null]
Before(j) == IF j \in DOMAIN jobs THEN jobs[j] ELSE BlankRecord

(* C6: a job never has both file and error non-null; file changes only from
   null and only on the step to completed, error changes only from null and
   only on the step to failed. *)
C6_FileXorError ==
    [][\A j \in DOMAIN jobs' :
          /\ ~(jobs'[j].file # Null /\ jobs'[j].error # Null)
          /\ jobs'[j].file # Before(j).file
                => /\ Before(j).file = Null
                   /\ jobs'[j].status = "completed"
                   /\ Before(j).status # "completed"
          /\ jobs'[j].error # Before(j).error
                => /\ Before(j).error = Null
                   /\ jobs'[j].status = "failed"
                   /\ Before(j).status # "failed"]_vars

(* One job carries an output path and no error, another an error and no
   output path *)
C6_Witness ==
    \E a, b \in DOMAIN jobs :
        /\ jobs[a].file # Null /\ jobs[a].error = Null
        /\ jobs[b].error # Null /\ jobs[b].file = Null

(* C7: once a job is completed or failed, no step changes its record. *)
C7_TerminalFrozen ==
    [][\A j \in DOMAIN jobs :
          StatusOf(j) \in Terminal => (j \in DOMAIN jobs' /\ jobs'[j] = jobs[j])]_vars

(* A completed and a failed job have both settled, and a later job was
   accepted and started after them *)
C7_Witness ==
    \E a, b, c \in DOMAIN jobs :
        /\ StatusOf(a) = "completed" /\ pc[a] = "done"
        /\ StatusOf(b) = "failed" /\ pc[b] = "done"
        /\ StatusOf(c) \in Active

(* The submissions the interface rejects: sourceUrl absent, clips not a
   list, or clips empty *)
Malformed(p) == p.sourceUrl = "" \/ ~p.isArray \/ p.clips = <<>>

(* C8: a submission with sourceUrl absent or clips empty or not a list gets
   a client-error response without job identifier and changes neither the
   job table nor the work queue. *)
C8_RejectedUnchanged ==
    [][\A p \in Payloads :
          (Malformed(p) /\ PostRender(p))
             => /\ http'.code = 400
                /\ http'.jobId = 0
                /\ jobs' = jobs
                /\ queue' = queue
                /\ cfg' = cfg
                /\ running' = running]_vars

(* A submission was rejected while one job waits and another runs *)
C8_Witness ==
    /\ http.code = 400
    /\ queue # <<>>
    /\ running # {}

(* x is a finite number *)
IsFinite(x) == x.type = "number" /\ x.kind = "finite"

(* A clip the compiler must reject: start or end not a finite number, or
   end <= start *)
BadClip(c) ==
    \/ ~IsFinite(c.start)
    \/ ~IsFinite(c.end)
    \/ c.end.v <= c.start.v

HasBadClip(clips) == \E i \in 1..Len(clips) : BadClip(clips[i])

(* C9: a job with a clip whose start or end is not a finite number, or with
   end <= start, never enters rendering, never has the render engine
   invoked, and is failed when processJob returns. *)
C9_BadClipNeverRenders ==
    \A j \in DOMAIN cfg :
        HasBadClip(cfg[j].clips)
           => /\ StatusOf(j) \notin {"rendering", "completed"}
              /\ pc[j] # "exec"
              /\ pc[j] = "returned" => StatusOf(j) = "failed"

(* C10: a job's file is non-null exactly when it is completed; the status
   document carries a downloadUrl, and GET /download serves the file,
   exactly for a completed job. *)
C10_ArtifactIffCompleted ==
    \A j \in DOMAIN jobs :
        /\ jobs[j].file # Null <=> StatusOf(j) = "completed"
        /\ StatusResponse(j).downloadUrl # Null <=> StatusOf(j) = "completed"
        /\ DownloadResponse(j).code = 200 <=> StatusOf(j) = "completed"
        /\ DownloadResponse(j).code = 200 => DownloadResponse(j).body = jobs[j].file

(* Polled at once: a completed job, a failed job and a job still rendering *)
C10_Witness ==
    \E a, b, c \in DOMAIN jobs :
        /\ StatusOf(a) = "completed" /\ StatusResponse(a).downloadUrl # Null
        /\ StatusOf(b) = "failed" /\ StatusResponse(b).downloadUrl = Null
        /\ StatusOf(c) = "rendering" /\ DownloadResponse(c).code = 404

RecordFields == {"status", "progress", "file", "error"}
DocumentFields == {"status", "progress", "downloadUrl", "error"}

(* C11: a status query is answered not-found exactly for identifiers that
   POST /render never returned: every identifier it returns is in the job
   table, identifiers enter the table only by being returned, no record is
   ever removed or loses a field, and the answer for a record in the table
   is a document with status, progress, downloadUrl and error. *)
C11_FoundIffAccepted ==
    /\ [](\A j \in JobIds :
            IF j \in DOMAIN jobs
            THEN /\ RecordFields \subseteq DOMAIN jobs[j]
                 /\ StatusResponse(j).code = 200
                 /\ DocumentFields \subseteq DOMAIN StatusResponse(j)
            ELSE StatusResponse(j).code = 404)
    /\ [][/\ DOMAIN jobs \subseteq DOMAIN jobs'
          /\ \A j \in DOMAIN jobs' \ DOMAIN jobs : http' = [code |-> 200, jobId |-> j]
          /\ (http' # http /\ http'.code = 200) => http'.jobId \in DOMAIN jobs'
          /\ \A j \in DOMAIN jobs : DOMAIN jobs[j] \subseteq DOMAIN jobs'[j]]_vars

(* Two identifiers were returned and one never was; the first job has
   finished and settled, and all three are polled *)
C11_Witness ==
    /\ DOMAIN jobs = {1, 2}
    /\ pc[1] = "done"
    /\ StatusResponse(1).code = 200
    /\ StatusResponse(2).code = 200
    /\ StatusResponse(3).code = 404

(* C12: no step lowers a job's progress. *)
C12_ProgressNeverDrops ==
    [][\A j \in DOMAIN jobs : jobs'[j].progress >= jobs[j].progress]_vars

(* C12 as amended: a job's progress is lowered only by the step to failed,
   which resets it to 0; every other step leaves it or raises it. *)
C12_ProgressDropsOnlyOnFailure ==
    [][\A j \in DOMAIN jobs :
          jobs'[j].progress < jobs[j].progress
             => /\ jobs'[j].status = "failed"
                /\ jobs[j].status # "failed"
                /\ jobs'[j].progress = 0]_vars

(* A job failed in the render engine, from progress 20 to 0, and another
   one climbed to 100 *)
C12_Witness ==
    \E a, b \in DOMAIN jobs :
        /\ jobs[a].error = "Error: Command failed: ffmpeg" /\ jobs[a].progress = 0
        /\ jobs[b].progress = 100

ProgressOf(st) ==
    CASE st = "queued" -> 0
      [] st = "downloading" -> 5
      [] st = "preparing" -> 12
      [] st = "rendering" -> 20
      [] st = "completed" -> 100
      [] st = "failed" -> 0
      [] OTHER -> -1

(* C13: every record is consistent with its status: progress 0, 5, 12, 20,
   100, 0 in queued, downloading, preparing, rendering, completed, failed; a
   completed job has an output path; a failed job has an error; and the
   status document shows the same. *)
C13_RecordMatchesStatus ==
    \A j \in DOMAIN jobs :
        /\ jobs[j].progress = ProgressOf(StatusOf(j))
        /\ StatusOf(j) = "completed" => jobs[j].file # Null
        /\ StatusOf(j) = "failed" => jobs[j].error # Null
        /\ StatusResponse(j).progress = ProgressOf(StatusResponse(j).status)
        /\ StatusResponse(j).status = "failed" => StatusResponse(j).error # Null

(* A failed, a completed and a downloading job are in the table together *)
C13_Witness ==
    /\ DOMAIN jobs = {1, 2, 3}
    /\ StatusOf(1) = "failed" /\ jobs[1].error = "Error: clip.end must be > clip.start"
    /\ StatusOf(2) = "completed"
    /\ StatusOf(3) = "downloading"

(* The checks of the clip loop: start and end are of type number and not
   NaN, and end > start *)
PassesClipLoop(c) ==
    /\ c.start.type = "number" /\ c.start.kind # "nan"
    /\ c.end.type = "number" /\ c.end.kind # "nan"
    /\ ~Leq(c.end, c.start)

AllPassClipLoop(clips) == \A i \in 1..Len(clips) : PassesClipLoop(clips[i])

FailsFrom(st) ==
    \E j \in DOMAIN jobs : StatusOf(j) = st /\ jobs'[j].status = "failed"

NeverFailsFromQueued == [][~FailsFrom("queued")]_vars
NeverFailsFromDownloading == [][~FailsFrom("downloading")]_vars
NeverFailsFromPreparing == [][~FailsFrom("preparing")]_vars
NeverFailsFromRendering == [][~FailsFrom("rendering")]_vars

WellFormed(p) == p.sourceUrl # "" /\ p.isArray /\ p.clips # <<>>

(* C16: while the process runs, in every state, whatever the worker is
   doing, a valid POST /render can be taken at once, and taking it creates a
   queued record, returns its identifier and touches neither the worker nor
   any other job; the status query answers for every job in the table. *)
C16_IntakeNeverBlocked ==
    /\ []((alive /\ uuid \in JobIds)
             => \A p \in Payloads : WellFormed(p) => ENABLED PostRender(p))
    /\ [](\A j \in DOMAIN jobs : StatusResponse(j).code = 200)
    /\ [][\A p \in Payloads :
            (WellFormed(p) /\ PostRender(p))
               => /\ http'.code = 200
                  /\ http'.jobId \notin DOMAIN jobs
                  /\ jobs'[http'.jobId] = QueuedRecord
                  /\ running' = running
                  /\ \A j \in DOMAIN jobs : jobs'[j] = jobs[j] /\ pc'[j] = pc[j]]_vars

(* A job was accepted and is queued while the worker is suspended in the
   render engine for an earlier job *)
C16_Witness ==
    \E a \in DOMAIN jobs :
        /\ pc[a] = "exec"
        /\ http.code = 200
        /\ http.jobId > a
        /\ StatusOf(http.jobId) = "queued"

(* C17: after a stream error of the transfer, on the response body or on
   the local file being written, the job is failed and processJob has
   returned without going on to preparing. *)
C17_StreamErrorFailsJob ==
    \A j \in DOMAIN jobs :
        (pc[j] = "uncaught" \/ jobs[j].error = "Error: aborted")
           => (StatusOf(j) = "failed" /\ pc[j] \in {"returned", "done"})

(* The fields each transition names in its patch *)
PatchFields(st) ==
    CASE st \in {"downloading", "preparing", "rendering"} -> {"status", "progress"}
      [] st = "failed" -> {"status", "progress", "error"}
      [] st = "completed" -> {"status", "progress", "file", "tmpDir"}
      [] OTHER -> {}

(* C18: a step that changes a job's record changes only the fields its
   patch names: every other field of the record is still there with the
   value it had, and no field is added besides the patch's. *)
C18_PatchMerge ==
    [][\A j \in DOMAIN jobs :
          jobs'[j] # jobs[j]
             => /\ DOMAIN jobs'[j] = DOMAIN jobs[j] \cup PatchFields(jobs'[j].status)
                /\ \A f \in DOMAIN jobs[j] \ PatchFields(jobs'[j].status) :
                       jobs'[j][f] = jobs[j][f]]_vars

(* A completed record still carries its null error next to the added
   tmpDir, and a failed record still carries its null file *)
C18_Witness ==
    \E a, b \in DOMAIN jobs :
        /\ DOMAIN jobs[a] = {"status", "progress", "file", "error", "tmpDir"}
        /\ jobs[a].error = Null
        /\ DOMAIN jobs[b] = {"status", "progress", "file", "error"}
        /\ StatusOf(b) = "failed"
        /\ jobs[b].file = Null

(* C19: a step changes the record of at most one job, and only of the job
   whose processJob takes that step; a step that adds a record changes no
   existing record. *)
C19_OnlyOwnRecord ==
    [][/\ \A a \in DOMAIN jobs :
             jobs'[a] # jobs[a]
                => /\ a \in running'
                   /\ pc'[a] # pc[a]
                   /\ DOMAIN jobs' = DOMAIN jobs
                   /\ \A b \in DOMAIN jobs \ {a} : jobs'[b] = jobs[b]
       /\ DOMAIN jobs' # DOMAIN jobs
             => \A b \in DOMAIN jobs : jobs'[b] = jobs[b]]_vars

(* A job has just failed in the transfer while a settled completed job and
   a queued job are in the table *)
C19_Witness ==
    \E a, b, c \in DOMAIN jobs :
        /\ pc[a] = "returned" /\ jobs[a].error = "Error: aborted"
        /\ pc[b] = "done" /\ StatusOf(b) = "completed"
        /\ StatusOf(c) = "queued"

(* Positions of the parts of a filter graph *)
PartsWith(parts, filter) == {k \in DOMAIN parts : parts[k].filter = filter}
PartAt(parts, out) == CHOOSE k \in DOMAIN parts : parts[k].out = out

(* One video trim labelled v{i} and one audio trim labelled a{i} for each
   clip index i in 0..n-1, carrying the clip's bounds, in clip order *)
OneTrimPairPerClip(parts, clips) ==
    LET n == Len(clips)
        vname(i) == "v" \o ToString(i)
        aname(i) == "a" \o ToString(i)
    IN /\ Cardinality(PartsWith(parts, "trim,setpts")) = n
       /\ Cardinality(PartsWith(parts, "atrim,asetpts")) = n
       /\ \A i \in 0..(n - 1) :
             /\ \E k \in PartsWith(parts, "trim,setpts") :
                    /\ parts[k].out = vname(i)
                    /\ parts[k].in = <<"0:v">>
                    /\ parts[k].start = clips[i + 1].start
                    /\ parts[k].end = clips[i + 1].end
             /\ \E k \in PartsWith(parts, "atrim,asetpts") :
                    /\ parts[k].out = aname(i)
                    /\ parts[k].in = <<"0:a">>
                    /\ parts[k].start = clips[i + 1].start
                    /\ parts[k].end = clips[i + 1].end
       /\ \A i \in 1..(n - 1) :
             /\ PartAt(parts, vname(i - 1)) < PartAt(parts, vname(i))
             /\ PartAt(parts, aname(i - 1)) < PartAt(parts, aname(i))

(* The jobs whose filter graph has been compiled from a valid clip list *)
CompiledValid == {j \in DOMAIN engine : j \in DOMAIN cfg /\ ~HasBadClip(cfg[j].clips)}

(* C20: the filter graph compiled from a valid clip list of n clips has one
   trim pair per clip, in clip order, and exactly one concatenation stage,
   whose segment count is n. *)
C20_OneConcatStage ==
    \A j \in CompiledValid :
        LET parts == engine[j]
            clips == cfg[j].clips
        IN /\ OneTrimPairPerClip(parts, clips)
           /\ Cardinality(PartsWith(parts, "concat")) = 1
           /\ \A k \in PartsWith(parts, "concat") : parts[k].n = Len(clips)

(* C20 as amended: the filter graph compiled from a valid clip list of n
   clips has one trim pair per clip, in clip order, and exactly two
   concatenation stages, a video-only one over v0..v{n-1} giving vout and an
   audio-only one over a0..a{n-1} giving aout, each with segment count n. *)
C20_TwoConcatStages ==
    \A j \in CompiledValid :
        LET parts == engine[j]
            clips == cfg[j].clips
            n == Len(clips)
        IN /\ OneTrimPairPerClip(parts, clips)
           /\ Cardinality(PartsWith(parts, "concat")) = 2
           /\ \A k \in PartsWith(parts, "concat") : parts[k].n = n
           /\ \E k \in PartsWith(parts, "concat") :
                 /\ parts[k].out = "vout" /\ parts[k].v = 1 /\ parts[k].a = 0
                 /\ parts[k].in = [i \in 1..n |-> "v" \o ToString(i - 1)]
           /\ \E k \in PartsWith(parts, "concat") :
                 /\ parts[k].out = "aout" /\ parts[k].v = 0 /\ parts[k].a = 1
                 /\ parts[k].in = [i \in 1..n |-> "a" \o ToString(i - 1)]

(* The graph of a valid list of two different clips has been compiled *)
C20_Witness ==
    \E j \in CompiledValid :
        /\ pc[j] = "exec"
        /\ Len(cfg[j].clips) = 2
        /\ cfg[j].clips[1] # cfg[j].clips[2]
        /\ Len(engine[j]) = 7
====
